---- MODULE Spec2Model ----
(***************************************************************************)
(* Model of pfun.lens (src/src/pfun/lens.py): path elements Attr / Index,  *)
(* the builders RootLens / Lens, and Transform.__call__.                   *)
(*                                                                         *)
(* Python objects live in a heap (a sequence of object records, the        *)
(* position being the object's identity).  A value is either an atom       *)
(* <<"atom", n>> (an int) or a reference <<"ref", id>>.                     *)
(***************************************************************************)
EXTENDS Integers, Sequences, FiniteSets, TLC

VARIABLES builders, transform, heap, pc, a, rest, head, attr_stack,
          transformed_last_attr, i, result, error, trace

vars == <<builders, transform, heap, pc, a, rest, head, attr_stack,
          transformed_last_attr, i, result, error, trace>>

callVars == <<heap, pc, a, rest, head, attr_stack,
              transformed_last_attr, i, result, error, trace>>

(* ------------------------------ bounds --------------------------------- *)
MaxPath == 3
MaxBuilders == 4

(* ------------------------------ values --------------------------------- *)
Atom(n) == <<"atom", n>>
Ref(o) == <<"ref", o>>
NoneVal == <<"none", 0>>
IsRef(v) == v[1] = "ref"

Names == {"a", "b"}
Indices == -3 .. 2
NTFields == <<"a">>

NoAttrs == [n \in {} |-> NoneVal]
NoItems == [k \in {} |-> NoneVal]

SeqObj(kind, s) == [kind |-> kind, seq |-> s, attrs |-> NoAttrs, items |-> NoItems]
MapObj(kind, m) == [kind |-> kind, seq |-> <<>>, attrs |-> NoAttrs, items |-> m]
PlainObj(f) == [kind |-> "object", seq |-> <<>>, attrs |-> f, items |-> NoItems]

Put(f, key, v) == [x \in DOMAIN f \cup {key} |-> IF x = key THEN v ELSE f[x]]

KindOf(h, x) == IF IsRef(x) THEN h[x[2]].kind ELSE "int"
Deref(h, x) == h[x[2]]

(* The objects the applications start from. *)
Zoo ==
  << SeqObj("tuple", <<Atom(1), Atom(2)>>),
     SeqObj("List", <<Atom(3), Ref(1)>>),
     SeqObj("namedtuple", <<Ref(1)>>),
     MapObj("Dict", (0 :> Ref(2))),
     PlainObj([n \in {"a", "b"} |-> IF n = "a" THEN Ref(3) ELSE Ref(4)]),
     SeqObj("list", <<Ref(5), Atom(4)>>),
     PlainObj([n \in {"a"} |-> Atom(5)]),
     MapObj("dict", (1 :> Ref(7))) >>

Values == {Atom(9), Ref(1)}

(* ----------------------- outcomes of an operation ---------------------- *)
Ok(h, v) == [ok |-> TRUE, err |-> "", val |-> v, heap |-> h]
Raise(h, e) == [ok |-> FALSE, err |-> e, val |-> NoneVal, heap |-> h]
Alloc(h, o) == Ok(Append(h, o), Ref(Len(h) + 1))

(* ----------------------- Python sequence indexing ---------------------- *)
Clamp(k, n) == IF k < 0 THEN 0 ELSE IF k > n THEN n ELSE k
Wrap(k, n) == IF k < 0 THEN k + n ELSE k

\* x[i] is defined for -n <= i < n
PyIndexOk(k, n) == -n <= k /\ k < n
\* 1-based position of x[i]
PyPos(k, n) == Wrap(k, n) + 1
\* x[:i]
SliceBefore(s, k) == SubSeq(s, 1, Clamp(Wrap(k, Len(s)), Len(s)))
\* x[i + 1:]
SliceAfter(s, k) == SubSeq(s, Clamp(Wrap(k + 1, Len(s)), Len(s)) + 1, Len(s))

IsSeqKind(kd) == kd \in {"List", "tuple", "namedtuple", "list"}
IsMapKind(kd) == kd \in {"Dict", "dict"}

FieldPos(attr) == CHOOSE p \in 1 .. Len(NTFields) : NTFields[p] = attr
IsNTField(attr) == \E p \in 1 .. Len(NTFields) : NTFields[p] = attr

\* x[index]
GetItem(h, x, index) ==
  LET kd == KindOf(h, x) IN
  IF IsSeqKind(kd)
  THEN IF PyIndexOk(index, Len(Deref(h, x).seq))
       THEN Ok(h, Deref(h, x).seq[PyPos(index, Len(Deref(h, x).seq))])
       ELSE Raise(h, "IndexError")
  ELSE IF IsMapKind(kd)
  THEN IF index \in DOMAIN Deref(h, x).items
       THEN Ok(h, Deref(h, x).items[index])
       ELSE Raise(h, "KeyError")
  ELSE Raise(h, "TypeError")

\* getattr(x, attr)
GetAttribute(h, x, attr) ==
  LET kd == KindOf(h, x) IN
  IF kd = "namedtuple" /\ IsNTField(attr)
  THEN Ok(h, Deref(h, x).seq[FieldPos(attr)])
  ELSE IF kd = "object" /\ attr \in DOMAIN Deref(h, x).attrs
  THEN Ok(h, Deref(h, x).attrs[attr])
  ELSE Raise(h, "AttributeError")

\* copy.copy(x): ints and plain tuples are returned as they are, every other
\* object is duplicated with its slots shared
CopyAliased(h, x) == Ok(h, x)
Copy(h, x) ==
  IF KindOf(h, x) \in {"int", "tuple"} THEN Ok(h, x) ELSE Alloc(h, Deref(h, x))

ObjectSetAttrOnly(h, x, attr, value) ==
  IF KindOf(h, x) = "object"
  THEN Ok([h EXCEPT ![x[2]].attrs = [n \in {attr} |-> value]], x)
  ELSE Raise(h, "AttributeError")
\* object.__setattr__(x, attr, value): only objects with a __dict__ accept it
ObjectSetAttr(h, x, attr, value) ==
  IF KindOf(h, x) = "object"
  THEN Ok([h EXCEPT ![x[2]].attrs = Put(@, attr, value)], x)
  ELSE Raise(h, "AttributeError")

\* x[index] = value on a mutable container
SetItem(h, x, index, value) ==
  LET kd == KindOf(h, x) IN
  IF kd = "list"
  THEN IF PyIndexOk(index, Len(Deref(h, x).seq))
       THEN Ok([h EXCEPT ![x[2]].seq[PyPos(index, Len(Deref(h, x).seq))] = value], x)
       ELSE Raise(h, "IndexError")
  ELSE IF kd = "dict"
  THEN Ok([h EXCEPT ![x[2]].items = Put(@, index, value)], x)
  ELSE Raise(h, "TypeError")

\* namedtuple._replace(**{attr: value})
Replace(h, x, attr, value) ==
  IF IsNTField(attr)
  THEN Alloc(h, [Deref(h, x) EXCEPT !.seq[FieldPos(attr)] = value])
  ELSE Raise(h, "ValueError")

\* pfun Dict.set(key, value)
DictSet(h, x, key, value) ==
  Alloc(h, [Deref(h, x) EXCEPT !.items = Put(@, key, value)])

\* before + List([value]) + after
ListConcat(h, before, value, after) ==
  Alloc(h, SeqObj("List", before \o <<value>> \o after))

\* before + (value, ) + after
TupleConcat(h, before, value, after) ==
  Alloc(h, SeqObj("tuple", before \o <<value>> \o after))

(* ----------------------------- PathElement ----------------------------- *)
Attr(name) == [tag |-> "Attr", attr |-> name, index |-> 0]
Index(k) == [tag |-> "Index", attr |-> "", index |-> k]
Steps == {Attr(n) : n \in Names} \cup {Index(k) : k \in Indices}

_is_named_tuple(h, x) == KindOf(h, x) = "namedtuple"

AttrGet(h, x, attr) == GetAttribute(h, x, attr)

AttrSet(h, x, attr, value) ==
  IF _is_named_tuple(h, x)
  THEN Replace(h, x, attr, value)
  ELSE LET c == Copy(h, x) IN ObjectSetAttr(c.heap, c.val, attr, value)

IndexGet(h, x, index) == GetItem(h, x, index)

IndexSetSeqShifted(h, x, index, value) ==
  LET s == Deref(h, x).seq IN
  IF ~GetItem(h, x, index).ok
  THEN Raise(h, GetItem(h, x, index).err)
  ELSE IF KindOf(h, x) = "List"
       THEN ListConcat(h, SliceBefore(s, index), value, SliceAfter(s, index - 1))
       ELSE TupleConcat(h, SliceBefore(s, index), value, SliceAfter(s, index - 1))
\* the List and tuple branches of Index.set
IndexSetSeq(h, x, index, value) ==
  LET s == Deref(h, x).seq IN
  IF ~GetItem(h, x, index).ok
  THEN Raise(h, GetItem(h, x, index).err)
  ELSE IF KindOf(h, x) = "List"
       THEN ListConcat(h, SliceBefore(s, index), value, SliceAfter(s, index))
       ELSE TupleConcat(h, SliceBefore(s, index), value, SliceAfter(s, index))

IndexSetDictChecked(h, x, index, value) ==
  IF ~GetItem(h, x, index).ok
  THEN Raise(h, GetItem(h, x, index).err)
  ELSE DictSet(h, x, index, value)
\* the Dict branch of Index.set
IndexSetDict(h, x, index, value) == DictSet(h, x, index, value)

\* the fallback of Index.set
IndexSetOther(h, x, index, value) ==
  LET c == Copy(h, x) IN SetItem(c.heap, c.val, index, value)

IndexSet(h, x, index, value) ==
  IF KindOf(h, x) = "List" THEN IndexSetSeq(h, x, index, value)
  ELSE IF KindOf(h, x) \in {"tuple", "namedtuple"} THEN IndexSetSeq(h, x, index, value)
  ELSE IF KindOf(h, x) = "Dict" THEN IndexSetDict(h, x, index, value)
  ELSE IndexSetOther(h, x, index, value)

\* path_element.get(x) / path_element.set(x, value)
Get(h, step, x) ==
  IF step.tag = "Attr" THEN AttrGet(h, x, step.attr) ELSE IndexGet(h, x, step.index)
Set(h, step, x, value) ==
  IF step.tag = "Attr" THEN AttrSet(h, x, step.attr, value)
  ELSE IndexSet(h, x, step.index, value)

(* ------------------------- RootLens / Lens ----------------------------- *)
NoStep == [tag |-> "none", attr |-> "", index |-> 0]

\* a builder: its class and its path; parent and step record which builder
\* it was made from and by which access
RootLens == [cls |-> "RootLens", path |-> <<>>, parent |-> 0, step |-> NoStep]
Lens(p, b, step) == [cls |-> "Lens", path |-> p, parent |-> b, step |-> step]

\* RootLens.__iter__
Iter(lens) == lens.path

ExtendInPlace(bs, b, step) ==
  Append([bs EXCEPT ![b].path = @ \o <<step>>], Lens(bs[b].path \o <<step>>, b, step))
\* Lens(self.__path + [step])
Extend(bs, b, step) == Append(bs, Lens(bs[b].path \o <<step>>, b, step))

\* Transform(lens, value)
Transform(lens, value) == [lens |-> Iter(lens), value |-> value]

\* lens(t)
lens == RootLens

CanExtend(b) ==
  /\ pc = "idle"
  /\ b \in DOMAIN builders
  /\ Len(builders) < MaxBuilders
  /\ Len(builders[b].path) < MaxPath

\* RootLens.__getattr__(name)
GetAttr(b, name) ==
  /\ CanExtend(b)
  /\ builders' = Extend(builders, b, Attr(name))
  /\ UNCHANGED <<transform, callVars>>

\* RootLens.__getitem__(index)
GetItemLens(b, index) ==
  /\ CanExtend(b)
  /\ builders' = Extend(builders, b, Index(index))
  /\ UNCHANGED <<transform, callVars>>

\* Lens.__lshift__(value)
LShift(b, value) ==
  /\ pc = "idle"
  /\ b \in DOMAIN builders
  /\ builders[b].cls = "Lens"
  /\ transform' = <<Transform(builders[b], value)>>
  /\ UNCHANGED <<builders, callVars>>

\* Transform(lens, value) constructed directly, from any builder
NewTransform(b, value) ==
  /\ pc = "idle"
  /\ b \in DOMAIN builders
  /\ builders[b].cls = "RootLens"
  /\ transform' = <<Transform(builders[b], value)>>
  /\ UNCHANGED <<builders, callVars>>

(* ------------------------- Transform.__call__ -------------------------- *)
Front(s) == SubSeq(s, 1, Len(s) - 1)
Last(s) == s[Len(s)]
Reversed(s) == [j \in 1 .. Len(s) |-> s[Len(s) + 1 - j]]
Min(x, y) == IF x < y THEN x ELSE y
Zip(s, t) == [j \in 1 .. Min(Len(s), Len(t)) |-> [attr |-> s[j], path_element |-> t[j]]]

UnpackLenient(path) ==
  IF Len(path) = 0
  THEN [ok |-> TRUE, rest |-> <<>>, head |-> NoStep]
  ELSE [ok |-> TRUE, rest |-> Front(path), head |-> Last(path)]
\* *rest, head = self.lens
Unpack(path) ==
  IF Len(path) = 0
  THEN [ok |-> FALSE, rest |-> <<>>, head |-> NoStep]
  ELSE [ok |-> TRUE, rest |-> Front(path), head |-> Last(path)]

PairsForward(attrs, r) == Zip(attrs, Reversed(r))
\* zip(reversed(attrs), reversed(rest))
Pairs(attrs, r) == Zip(Reversed(attrs), Reversed(r))

Entry(op, step, x, value, r) ==
  [op |-> op, step |-> step, x |-> x, value |-> value,
   ok |-> r.ok, err |-> r.err, out |-> r.val]

Roots == {Ref(o) : o \in DOMAIN heap} \cup {Atom(7)}

\* lines 37-38
Call(root) ==
  /\ pc = "idle"
  /\ transform # <<>>
  /\ a' = root
  /\ LET u == Unpack(transform[1].lens) IN
       IF u.ok
       THEN /\ rest' = u.rest
            /\ head' = u.head
            /\ attr_stack' = <<root>>
            /\ pc' = IF u.rest = <<>> THEN "set_head" ELSE "get"
            /\ error' = error
       ELSE /\ pc' = "raised"
            /\ error' = "ValueError"
            /\ UNCHANGED <<rest, head, attr_stack>>
  /\ UNCHANGED <<builders, transform, heap, transformed_last_attr, i, result, trace>>

\* lines 39-42, one iteration
GetStep ==
  /\ pc = "get"
  /\ LET path_element == rest[Len(attr_stack)]
         last_attr == Last(attr_stack)
         r == Get(heap, path_element, last_attr)
     IN /\ trace' = Append(trace, Entry("get", path_element, last_attr, NoneVal, r))
        /\ heap' = r.heap
        /\ IF r.ok
           THEN /\ attr_stack' = Front(attr_stack) \o <<last_attr, r.val>>
                /\ pc' = IF Len(attr_stack) = Len(rest) THEN "set_head" ELSE "get"
                /\ error' = error
           ELSE /\ pc' = "raised"
                /\ error' = r.err
                /\ attr_stack' = attr_stack
  /\ UNCHANGED <<builders, transform, a, rest, head, transformed_last_attr, i, result>>

\* lines 43-44
SetHead ==
  /\ pc = "set_head"
  /\ LET last_attr == Last(attr_stack)
         r == Set(heap, head, last_attr, transform[1].value)
     IN /\ trace' = Append(trace, Entry("set", head, last_attr, transform[1].value, r))
        /\ heap' = r.heap
        /\ IF r.ok
           THEN /\ transformed_last_attr' = r.val
                /\ pc' = IF rest = <<>> THEN "return" ELSE "set"
                /\ error' = error
           ELSE /\ pc' = "raised"
                /\ error' = r.err
                /\ transformed_last_attr' = transformed_last_attr
  /\ UNCHANGED <<builders, transform, a, rest, head, attr_stack, i, result>>

\* lines 45-48, one iteration
SetStep ==
  /\ pc = "set"
  /\ LET pair == Pairs(Front(attr_stack), rest)[i + 1]
         r == Set(heap, pair.path_element, pair.attr, transformed_last_attr)
     IN /\ trace' = Append(trace, Entry("set", pair.path_element, pair.attr,
                                         transformed_last_attr, r))
        /\ heap' = r.heap
        /\ IF r.ok
           THEN /\ transformed_last_attr' = r.val
                /\ i' = i + 1
                /\ pc' = IF i + 1 = Len(rest) THEN "return" ELSE "set"
                /\ error' = error
           ELSE /\ pc' = "raised"
                /\ error' = r.err
                /\ UNCHANGED <<transformed_last_attr, i>>
  /\ UNCHANGED <<builders, transform, a, rest, head, attr_stack, result>>

\* line 49
Return ==
  /\ pc = "return"
  /\ result' = transformed_last_attr
  /\ pc' = "returned"
  /\ UNCHANGED <<builders, transform, heap, a, rest, head, attr_stack,
                 transformed_last_attr, i, error, trace>>

(* --------------------------- specifications ---------------------------- *)
RECURSIVE Paths(_)
Paths(n) == IF n = 0 THEN {<<>>}
            ELSE Paths(n - 1) \cup {Append(p, s) : p \in {q \in Paths(n - 1) : Len(q) = n - 1}, s \in Steps}

InitCall ==
  /\ heap = Zoo
  /\ pc = "idle"
  /\ a = NoneVal
  /\ rest = <<>>
  /\ head = NoStep
  /\ attr_stack = <<>>
  /\ transformed_last_attr = NoneVal
  /\ i = 0
  /\ result = NoneVal
  /\ error = ""
  /\ trace = <<>>

\* building lenses and transforms
LensIndices == {-1, 0}

InitLens ==
  /\ builders = <<lens>>
  /\ transform = <<>>
  /\ InitCall

NextLens ==
  \/ \E b \in 1 .. MaxBuilders, name \in Names : GetAttr(b, name)
  \/ \E b \in 1 .. MaxBuilders, index \in LensIndices : GetItemLens(b, index)
  \/ \E b \in 1 .. MaxBuilders, value \in Values : LShift(b, value)
  \/ \E b \in 1 .. MaxBuilders, value \in Values : NewTransform(b, value)

SpecLens == InitLens /\ [][NextLens]_vars

\* applying a transform: any transform the builders can make, any root
Init ==
  /\ builders = <<lens>>
  /\ transform \in {<<[lens |-> p, value |-> v]>> : p \in Paths(MaxPath), v \in Values}
  /\ InitCall

Next ==
  \/ \E root \in Roots : Call(root)
  \/ GetStep
  \/ SetHead
  \/ SetStep
  \/ Return

Spec == Init /\ [][Next]_vars

(* ------------------------------- claims -------------------------------- *)
Applied == pc \in {"returned", "raised"}
TLens == transform[1].lens
TValue == transform[1].value

\* the location a step addresses is present in x: a field x has, a position
\* within [0, len), a key of the mapping
StepExists(h, step, x) ==
  LET kd == KindOf(h, x) IN
  IF step.tag = "Attr"
  THEN \/ kd = "namedtuple" /\ IsNTField(step.attr)
       \/ kd = "object" /\ step.attr \in DOMAIN Deref(h, x).attrs
  ELSE \/ IsSeqKind(kd) /\ 0 <= step.index /\ step.index < Len(Deref(h, x).seq)
       \/ IsMapKind(kd) /\ step.index \in DOMAIN Deref(h, x).items

RECURSIVE PathExists(_, _, _)
PathExists(h, path, x) ==
  \/ path = <<>>
  \/ /\ StepExists(h, path[1], x)
     /\ PathExists(h, Tail(path), Get(h, path[1], x).val)

RECURSIVE Read(_, _, _)
Read(h, path, x) ==
  IF path = <<>> THEN Ok(h, x)
  ELSE LET r == Get(h, path[1], x) IN
       IF r.ok THEN Read(h, Tail(path), r.val) ELSE r

\* every slot of new other than the one step addresses holds the value (the
\* same reference) the slot holds in old, and new has no other slots
SameElsewhere(h, old, new, step) ==
  /\ IsRef(old) /\ IsRef(new)
  /\ LET o == Deref(h, old)
         n == Deref(h, new)
         onPath(p) == \/ step.tag = "Index" /\ p = PyPos(step.index, Len(o.seq))
                      \/ step.tag = "Attr" /\ IsNTField(step.attr) /\ p = FieldPos(step.attr)
     IN /\ Len(n.seq) = Len(o.seq)
        /\ \A p \in 1 .. Len(o.seq) : onPath(p) \/ n.seq[p] = o.seq[p]
        /\ DOMAIN n.attrs = DOMAIN o.attrs
        /\ \A f \in DOMAIN o.attrs :
             (step.tag = "Attr" /\ f = step.attr) \/ n.attrs[f] = o.attrs[f]
        /\ DOMAIN n.items = DOMAIN o.items
        /\ \A key \in DOMAIN o.items :
             (step.tag = "Index" /\ key = step.index) \/ n.items[key] = o.items[key]

C3_RebuildReplacesOnlyTarget ==
  (Applied /\ TLens # <<>> /\ PathExists(heap, TLens, a)) =>
     /\ pc = "returned"
     /\ Read(heap, TLens, result).ok
     /\ Read(heap, TLens, result).val = TValue
     /\ \A j \in 1 .. Len(TLens) :
          SameElsewhere(heap, Read(heap, SubSeq(TLens, 1, j - 1), a).val,
                        Read(heap, SubSeq(TLens, 1, j - 1), result).val, TLens[j])

C3_Witness ==
  /\ pc = "returned"
  /\ Len(TLens) = 3
  /\ PathExists(heap, TLens, a)
  /\ \E j \in 1 .. 3 : TLens[j].tag = "Attr"
  /\ \E j \in 1 .. 3 : TLens[j].tag = "Index"

\* C4: Index(i).set(s, v) on a pfun List or a tuple s of length n, with
\* 0 <= i < n, returns a sequence of length n holding v at position i and
\* s[j] at every other position j.
C4_SeqReplaceKeepsLengthAndOrder ==
  \A j \in DOMAIN trace :
    LET e == trace[j] IN
    (/\ e.op = "set" /\ e.step.tag = "Index"
     /\ KindOf(heap, e.x) \in {"List", "tuple", "namedtuple"}
     /\ 0 <= e.step.index /\ e.step.index < Len(Deref(heap, e.x).seq)) =>
       /\ e.ok
       /\ IsRef(e.out)
       /\ IsSeqKind(KindOf(heap, e.out))
       /\ Len(Deref(heap, e.out).seq) = Len(Deref(heap, e.x).seq)
       /\ \A p \in 1 .. Len(Deref(heap, e.x).seq) :
            Deref(heap, e.out).seq[p] =
              IF p = e.step.index + 1 THEN e.value ELSE Deref(heap, e.x).seq[p]

C4_Witness ==
  \E j \in DOMAIN trace :
    /\ trace[j].op = "set" /\ trace[j].step = Index(1) /\ trace[j].ok
    /\ KindOf(heap, trace[j].x) = "List"
    /\ j > 1

\* C5 as stated: on an ordered sequence of length n an index step with an
\* index outside [0, n) fails with IndexError, in get and in set; set returns
\* no sequence.
C5_OutOfRangeIndexFails ==
  \A j \in DOMAIN trace :
    LET e == trace[j] IN
    (/\ e.step.tag = "Index"
     /\ IsSeqKind(KindOf(heap, e.x))
     /\ (e.step.index < 0 \/ e.step.index >= Len(Deref(heap, e.x).seq))) =>
       (~e.ok /\ e.err = "IndexError")

\* C6 as stated: a field-access step naming a field the addressed container
\* does not have fails, in get and in set; no result with a newly added field
\* is returned.
C6_MissingFieldFails ==
  \A j \in DOMAIN trace :
    LET e == trace[j] IN
    (e.step.tag = "Attr" /\ ~StepExists(heap, e.step, e.x)) => ~e.ok

\* C7: on a mapping m, Index(k).set(m, v) never fails and returns a new
\* mapping equal to m except that k maps to v (inserted when absent);
\* Index(k).get(m) fails with KeyError when k is absent; so a call fails with
\* KeyError only in a get, that is in an intermediate step.
C7_MappingUpsert ==
  /\ \A j \in DOMAIN trace :
       LET e == trace[j] IN
       (e.step.tag = "Index" /\ IsMapKind(KindOf(heap, e.x))) =>
          IF e.op = "set"
          THEN /\ e.ok
               /\ IsRef(e.out) /\ e.out # e.x
               /\ KindOf(heap, e.out) = KindOf(heap, e.x)
               /\ Deref(heap, e.out).items =
                    Put(Deref(heap, e.x).items, e.step.index, e.value)
          ELSE IF e.step.index \in DOMAIN Deref(heap, e.x).items
               THEN e.ok /\ e.out = Deref(heap, e.x).items[e.step.index]
               ELSE ~e.ok /\ e.err = "KeyError"
  /\ (pc = "raised" /\ error = "KeyError") => trace[Len(trace)].op = "get"

C7_Witness ==
  \E j \in DOMAIN trace :
    /\ trace[j].op = "set" /\ trace[j].step.tag = "Index" /\ trace[j].ok
    /\ KindOf(heap, trace[j].x) = "Dict"
    /\ trace[j].step.index \notin DOMAIN Deref(heap, trace[j].x).items

\* C8 as stated: whenever step.set(container, value) returns, the result has
\* the kind of the container (stated here for the steps whose location
\* exists in the container, named tuples addressed by an index included).
C8_SetPreservesKind ==
  \A j \in DOMAIN trace :
    LET e == trace[j] IN
    (e.op = "set" /\ e.ok /\ StepExists(heap, e.step, e.x)) =>
       KindOf(heap, e.out) = KindOf(heap, e.x)

RECURSIVE Chain(_, _)
Chain(bs, b) == IF bs[b].parent = 0 THEN <<>>
                ELSE Append(Chain(bs, bs[b].parent), bs[b].step)

\* C9: an access on a builder with path p returns a new builder (a Lens) with
\* path p ++ [step]; the builder it was made from keeps its path p whatever
\* is built afterwards, the builder returned by lens() stays empty, and
\* iterating a builder yields its steps as accumulated, root to leaf.
C9_CopyOnExtend ==
  /\ builders[1] = lens
  /\ Iter(builders[1]) = <<>>
  /\ \A b \in 2 .. Len(builders) :
       /\ builders[b].cls = "Lens"
       /\ builders[b].parent \in 1 .. (b - 1)
       /\ builders[b].path = builders[builders[b].parent].path \o <<builders[b].step>>
       /\ Iter(builders[b]) = Chain(builders, b)

C9_Witness ==
  \E b, c \in DOMAIN builders :
    /\ b # c
    /\ builders[b].parent = builders[c].parent
    /\ builders[b].parent > 1
    /\ builders[b].step # builders[c].step

\* C10: the call performs the n-1 gets root to leaf, then the n sets from the
\* last step back to the first; the set of step i receives the container the
\* gets before i obtained and the result of the set of step i+1; the first
\* failing step ends the walk: nothing runs after it and nothing is returned.
C10_WalkOrder ==
  LET n == Len(TLens) IN
  /\ Len(trace) <= 2 * n - 1 \/ trace = <<>>
  /\ \A j \in DOMAIN trace :
       LET e == trace[j] IN
       IF j <= n - 1
       THEN /\ e.op = "get"
            /\ e.step = TLens[j]
            /\ e.x = IF j = 1 THEN a ELSE trace[j - 1].out
       ELSE LET s == 2 * n - j IN
            /\ e.op = "set"
            /\ e.step = TLens[s]
            /\ e.x = IF s = 1 THEN a ELSE trace[s - 1].out
            /\ e.value = IF s = n THEN TValue ELSE trace[j - 1].out
  /\ \A j \in DOMAIN trace : j < Len(trace) => trace[j].ok
  /\ (trace # <<>> /\ ~trace[Len(trace)].ok) => (pc = "raised" /\ result = NoneVal)
  /\ (pc = "raised" /\ n >= 1) => (trace # <<>> /\ ~trace[Len(trace)].ok)
  /\ pc = "returned" =>
       /\ Len(trace) = 2 * n - 1
       /\ trace[Len(trace)].ok
       /\ result = trace[Len(trace)].out
  /\ result # NoneVal => pc = "returned"

C10_Witness ==
  /\ pc = "returned"
  /\ Len(trace) = 5
  /\ trace[1].out # trace[2].out

====
